---- MODULE Spec2Model ----
(***************************************************************************)
(* Model of kube-runtime/src/reflector/store.rs: a Writer applying watcher *)
(* events to a DashMap shared (through an Arc) with Store read handles.    *)
(*                                                                         *)
(* The DashMap is a fixed array of shards, each a HashMap behind a         *)
(* read/write lock.  insert, remove and get lock the one shard of their    *)
(* key; retain write-locks the shards one after the other; iter() holds    *)
(* the read lock of the shard it is traversing and takes the next shard's  *)
(* lock before it lets go of the previous one.  A HashMap is modelled as   *)
(* the set of its (key, value) entries.                                    *)
(*                                                                         *)
(* A step that runs under a shard lock is one atomic action; the Writer    *)
(* waits (its action is disabled) while a traversal holds the read guard   *)
(* of the shard it needs.  One reader thread makes its calls through any   *)
(* of the handles: reads leave the map alone and read locks are shared,    *)
(* so more readers change nothing a Writer or a traversal can observe.     *)
(***************************************************************************)
EXTENDS Integers, Sequences, FiniteSets

\* ---------------------------------------------------------------- bounds
NumKeys == 2
NumShards == 2
MaxList == 2
NumCells == 2

Keys == 1..NumKeys
\* payloads: the store never inspects them, two are enough to tell a
\* refreshed object from a stale one
Vals == {"a", "b"}
Shards == 0..(NumShards - 1)
Cells == 0..(NumCells - 1)

\* an object of kind K: its identity attribute and its mutable payload
Objects == [name : Keys, data : Vals]

\* Option<K>
None == <<>>
Some(v) == <<v>>

NoObj == [name |-> 0, data |-> "-"]

\* ---------------------------------------------------------------- keys
\* ObjectRef::from_obj: the key is derived from the identity attributes only
ObjectRef_from_obj(obj) == obj.name

\* ---------------------------------------------------------------- HashMap
HmEntry(k, v) == [key |-> k, value |-> v]

\* a mis-implemented insert that leaves the previous entry in the table
HmInsertKeepOld(m, k, v) == m \cup {HmEntry(k, v)}

\* HashMap::insert: the value of an existing key is replaced
HmInsert(m, k, v) == {e \in m : e.key # k} \cup {HmEntry(k, v)}

HmRemove(m, k) == {e \in m : e.key # k}

HmContainsKey(m, k) == \E e \in m : e.key = k

HmGet(m, k) ==
    LET es == {e \in m : e.key = k}
    IN  IF es = {} THEN None ELSE Some((CHOOSE e \in es : TRUE).value)

\* a collect that keeps the first object of a key instead of the last
FromIterFirstWins(list) ==
    {HmEntry(ObjectRef_from_obj(list[i]), list[i]) : i \in
        {j \in 1..Len(list) : \A h \in 1..(j - 1) :
            ObjectRef_from_obj(list[h]) # ObjectRef_from_obj(list[j])}}

RECURSIVE FromIterRec(_)
FromIterRec(list) ==
    IF list = <<>> THEN {}
    ELSE LET n == Len(list)
         IN  HmInsert(FromIterRec(SubSeq(list, 1, n - 1)),
                      ObjectRef_from_obj(list[n]), list[n])

\* new_objs.iter().map(|obj| (ObjectRef::from_obj(obj), obj)).collect::<HashMap<_, _>>()
FromIter(list) == FromIterRec(list)

\* ---------------------------------------------------------------- DashMap
EmptyMap == [s \in Shards |-> {}]

\* the shard of a key is taken from the high bits of its hash
DetermineShard(k) == (k \div 2) % NumShards

\* an insert that stores a default object in place of the one given
DmInsertDefault(M, k, v) ==
    [M EXCEPT ![DetermineShard(k)] = HmInsert(@, k, NoObj)]

DmInsert(M, k, v) == [M EXCEPT ![DetermineShard(k)] = HmInsert(@, k, v)]

DmRemove(M, k) == [M EXCEPT ![DetermineShard(k)] = HmRemove(@, k)]

DmGet(M, k) == HmGet(M[DetermineShard(k)], k)

DmEntries(M) == UNION {M[s] : s \in Shards}

DmKeys(M) == {e.key : e \in DmEntries(M)}

\* a retain that clears the shard before the new objects are inserted
RetainNone(m, desired) == {}

\* a retain with the predicate negated: keeps what the list does not name
RetainInverted(m, desired) == {e \in m : ~HmContainsKey(desired, e.key)}

\* a retain whose predicate is always true: keeps every entry
RetainAllKeys(m, desired) == m

\* one shard's part of retain(|key, _old_value| new_objs.contains_key(key))
RetainShard(m, desired) == {e \in m : HmContainsKey(desired, e.key)}

\* ---------------------------------------------------------------- state
VARIABLES
    heap,       \* the DashMaps behind the Arcs: cell -> shard -> HashMap
    writer,     \* the Writer: [store |-> cell]
    handles,    \* the Store handles minted so far: the cells their Arcs point to
    wpc,        \* where the Writer is: "idle", "retain" or "insert"
    event,      \* the event of the latest apply_watcher_event call
    new_objs,   \* Restarted: the HashMap collected from the incoming list
    pending,    \* Restarted: what `for (key, obj) in new_objs` has yet to yield
    wshard,     \* Restarted: the next shard retain will lock
    wstart,     \* history: the store when the Restarted call in progress began
    had,        \* history: what get(identity(o)) gave before the latest Applied(o)
                \* or Deleted(o)
    twice,      \* history: the latest call is an Applied(o) that directly
                \* followed a completed Applied(o)
    amap,       \* history: the abstract map, the events so far folded one by one
    w2event,    \* a second Writer on the same map: the event of its latest call
    rpc,        \* where the reader is: "idle", "got", "scan" or "iter"
    rmap,       \* the cell of the handle the reader's call goes through
    ridx,       \* state(), iter(): shards locked so far; the guard held is ridx - 1
    acc,        \* the reader's result: the Option of get, the Vec of state
    overlap     \* history: a Writer step took effect since state() began

vars == <<heap, writer, handles, wpc, event, new_objs, pending, wshard, wstart, had, twice,
          amap, w2event,
          rpc, rmap, ridx, acc, overlap>>

wvars == <<wpc, event, new_objs, pending, wshard, wstart, had, twice, amap, w2event>>
rvars == <<rpc, rmap, ridx, acc, overlap>>

NoEvent == [type |-> "None", obj |-> NoObj]

\* Writer::default(): a fresh, empty DashMap behind a new Arc
WriterDefault == [store |-> 0]

Init ==
    /\ heap = [c \in Cells |-> EmptyMap]
    /\ writer = WriterDefault
    /\ handles = {}
    /\ wpc = "idle"
    /\ event = NoEvent
    /\ new_objs = {}
    /\ pending = {}
    /\ wshard = 0
    /\ wstart = EmptyMap
    /\ had = None
    /\ twice = FALSE
    /\ amap = [k \in Keys |-> None]
    /\ w2event = NoEvent
    /\ rpc = "idle"
    /\ rmap = 0
    /\ ridx = 0
    /\ acc = <<>>
    /\ overlap = FALSE

\* the store as the Writer sees it
TheStore == heap[writer.store]

\* the reader is inside state() or holds an iterator made by iter()
Traversing == rpc \in {"scan", "iter"}

\* a get that returns with the entry guard still held
ReadLockedPastGet(c, s) == rpc # "idle" /\ rmap = c /\ (rpc = "got" \/ ridx = s + 1)

\* the dashmap iterator holds the read guard of the shard it last locked
ReadLocked(c, s) == Traversing /\ rmap = c /\ ridx = s + 1

\* a Writer step taking effect during a state() call
Mutated == overlap \/ (rpc = "scan" /\ rmap = writer.store)

\* ---------------------------------------------------------------- Writer
\* an Arc::clone that allocates a map of its own instead of sharing
as_reader_fresh(w) == (w.store + 1) % NumCells

\* Writer::as_reader: Store { store: self.store.clone() }
as_reader(w) == w.store

\* #[derivative(Clone)] on Store: a new reference to the same backing store
store_clone(p) == p

\* as_reader borrows the Writer, so it never runs inside apply_watcher_event
AsReader ==
    /\ wpc = "idle"
    /\ handles' = handles \cup {as_reader(writer)}
    /\ UNCHANGED <<heap, writer, wvars, rvars>>

StoreClone(p) ==
    /\ p \in handles
    /\ handles' = handles \cup {store_clone(p)}
    /\ UNCHANGED <<heap, writer, wvars, rvars>>

\* an insert that keeps the object already stored (entry().or_insert)
InsertIfAbsent(M, obj) ==
    IF DmGet(M, ObjectRef_from_obj(obj)) = None
    THEN DmInsert(M, ObjectRef_from_obj(obj), obj) ELSE M

\* an insert that drops an entry equal to the one it is given
InsertToggle(M, obj) ==
    LET k == ObjectRef_from_obj(obj)
    IN  IF DmGet(M, k) = Some(obj) THEN DmRemove(M, k) ELSE DmInsert(M, k, obj)

\* an insert into a map made anew for the object
InsertObjAlone(M, obj) == DmInsert(EmptyMap, ObjectRef_from_obj(obj), obj)

\* self.store.insert(ObjectRef::from_obj(&obj), obj.clone())
InsertObj(M, obj) == DmInsert(M, ObjectRef_from_obj(obj), obj)

\* a remove that takes the entry out only when the stored object equals obj
RemoveIfEqual(M, obj) ==
    LET k == ObjectRef_from_obj(obj)
    IN  IF DmGet(M, k) = Some(obj) THEN DmRemove(M, k) ELSE M

\* a remove that clears the map when it does not find the key
RemoveOrClear(M, obj) ==
    IF DmGet(M, ObjectRef_from_obj(obj)) = None
    THEN EmptyMap ELSE DmRemove(M, ObjectRef_from_obj(obj))

\* self.store.remove(&ObjectRef::from_obj(&obj))
RemoveObj(M, obj) == DmRemove(M, ObjectRef_from_obj(obj))

Applied(obj) ==
    /\ wpc = "idle"
    /\ ~ReadLocked(writer.store, DetermineShard(ObjectRef_from_obj(obj)))
    /\ heap' = [heap EXCEPT ![writer.store] = InsertObj(@, obj)]
    /\ event' = [type |-> "Applied", obj |-> obj]
    /\ new_objs' = {}
    /\ had' = DmGet(TheStore, ObjectRef_from_obj(obj))
    /\ twice' = (event = [type |-> "Applied", obj |-> obj])
    /\ amap' = [amap EXCEPT ![ObjectRef_from_obj(obj)] = Some(obj)]
    /\ overlap' = Mutated
    /\ UNCHANGED <<writer, handles, wpc, pending, wshard, wstart, w2event, rpc, rmap, ridx, acc>>

Deleted(obj) ==
    /\ wpc = "idle"
    /\ ~ReadLocked(writer.store, DetermineShard(ObjectRef_from_obj(obj)))
    /\ heap' = [heap EXCEPT ![writer.store] = RemoveObj(@, obj)]
    /\ event' = [type |-> "Deleted", obj |-> obj]
    /\ new_objs' = {}
    /\ had' = DmGet(TheStore, ObjectRef_from_obj(obj))
    /\ twice' = FALSE
    /\ amap' = [amap EXCEPT ![ObjectRef_from_obj(obj)] = None]
    /\ overlap' = Mutated
    /\ UNCHANGED <<writer, handles, wpc, pending, wshard, wstart, w2event, rpc, rmap, ridx, acc>>

\* the lists a Restarted event can carry
Lists == UNION {[1..n -> Objects] : n \in 0..MaxList}

\* the complete current set a Restarted event announces, as a map: the
\* objects of the list set one after another, each under its key
RECURSIVE ListAsMapRec(_, _)
ListAsMapRec(list, n) ==
    IF n = 0 THEN [k \in Keys |-> None]
    ELSE [ListAsMapRec(list, n - 1) EXCEPT ![ObjectRef_from_obj(list[n])] = Some(list[n])]

ListAsMap(list) == ListAsMapRec(list, Len(list))

\* Restarted, lines 41-44: the incoming list is collected into a HashMap
RestartedBegin(list) ==
    /\ wpc = "idle"
    /\ wpc' = "retain"
    /\ event' = [type |-> "Restarted", obj |-> NoObj]
    /\ new_objs' = FromIter(list)
    /\ wshard' = 0
    /\ wstart' = TheStore
    /\ had' = None
    /\ twice' = FALSE
    /\ amap' = ListAsMap(list)
    /\ UNCHANGED <<heap, writer, handles, pending, w2event, rvars>>

\* Restarted, line 46: retain write-locks one shard and filters it
RestartedRetain ==
    /\ wpc = "retain"
    /\ ~ReadLocked(writer.store, wshard)
    /\ heap' = [heap EXCEPT ![writer.store][wshard] = RetainShard(@, new_objs)]
    /\ wshard' = wshard + 1
    /\ IF wshard + 1 = NumShards
       THEN wpc' = "insert" /\ pending' = new_objs
       ELSE UNCHANGED <<wpc, pending>>
    /\ overlap' = Mutated
    /\ UNCHANGED <<writer, handles, event, new_objs, wstart, had, twice, amap, w2event,
                   rpc, rmap, ridx, acc>>

\* Restarted, lines 47-49: the HashMap yields its entries in an order of its own
RestartedInsert ==
    /\ wpc = "insert"
    /\ \E e \in pending :
        /\ ~ReadLocked(writer.store, DetermineShard(e.key))
        /\ heap' = [heap EXCEPT ![writer.store] = DmInsert(@, e.key, e.value)]
        /\ pending' = pending \ {e}
    /\ overlap' = Mutated
    /\ UNCHANGED <<writer, handles, wpc, event, new_objs, wshard, wstart, had, twice, amap,
                   w2event, rpc, rmap, ridx, acc>>

\* Restarted: the loop is over and apply_watcher_event returns
RestartedReturn ==
    /\ wpc = "insert"
    /\ pending = {}
    /\ wpc' = "idle"
    /\ wshard' = 0
    /\ wstart' = EmptyMap
    /\ UNCHANGED <<heap, writer, handles, event, new_objs, pending, had, twice, amap,
                   w2event, rvars>>

\* ---------------------------------------------------------------- Store
\* Store::get: self.store.get(key).map(|entry| entry.value().clone())
StoreGet(p, key) == DmGet(heap[p], key)

Get(p, key) ==
    /\ p \in handles
    /\ ~Traversing
    /\ rpc' = "got"
    /\ rmap' = p
    /\ acc' = StoreGet(p, key)
    /\ UNCHANGED <<heap, writer, handles, wvars, ridx, overlap>>

\* the ways a HashMap can order the entries it holds
Orderings(S) ==
    {q \in [1..Cardinality(S) -> S] : \A i, j \in 1..Cardinality(S) : q[i] = q[j] => i = j}

\* an iterator that never moves on from the first shard
GuardedFirst(M, s) == M[0]

\* an iterator that walks the whole map again at every shard
GuardedAll(M, s) == DmEntries(M)

\* what the guarded iterator finds in the shard it has locked
Guarded(M, s) == M[s]

\* a value() that hands out a default object instead of the stored one
ValueDefault(e) == [name |-> e.key, data |-> "-"]

\* eg.value().clone()
ValueClone(e) == e.value

\* Store::state, the call of self.store.iter(): no shard is locked yet
StateBegin(p) ==
    /\ p \in handles
    /\ ~Traversing
    /\ rpc' = "scan"
    /\ rmap' = p
    /\ ridx' = 0
    /\ acc' = <<>>
    /\ overlap' = FALSE
    /\ UNCHANGED <<heap, writer, handles, wvars>>

\* Store::state, one shard: its read lock is taken, the previous guard is
\* dropped, and the shard's values are cloned into the result under the lock
StateNext ==
    /\ rpc = "scan"
    /\ ridx < NumShards
    /\ \E q \in Orderings(Guarded(heap[rmap], ridx)) :
        acc' = acc \o [i \in 1..Len(q) |-> ValueClone(q[i])]
    /\ ridx' = ridx + 1
    /\ UNCHANGED <<heap, writer, handles, wvars, rpc, rmap, overlap>>

\* Store::state, the end: collect() hands acc back as the Vec and the iterator
\* is dropped with its last guard
StateEnd ==
    /\ rpc = "scan"
    /\ ridx = NumShards
    /\ rpc' = "idle"
    /\ ridx' = 0
    /\ acc' = <<>>
    /\ overlap' = FALSE
    /\ UNCHANGED <<heap, writer, handles, wvars, rmap>>

\* an iterator that takes the entries out of the shard it visits (a drain)
IterDrains(M, s) == [M EXCEPT ![s] = {}]

\* what walking shard s with the guarded iterator leaves of the map: iter()
\* takes &self and read guards only
IterLeaves(M, s) == M

\* Store::iter: self.store.iter() hands the dashmap iterator to the caller
IterBegin(p) ==
    /\ p \in handles
    /\ ~Traversing
    /\ rpc' = "iter"
    /\ rmap' = p
    /\ ridx' = 0
    /\ acc' = <<>>
    /\ UNCHANGED <<heap, writer, handles, wvars, overlap>>

\* the caller consumes the iterator up to the end of the next shard: that
\* shard's read lock is taken, the previous guard is dropped, and the entries
\* are yielded under the lock; the caller keeps none of them
IterNext ==
    /\ rpc = "iter"
    /\ ridx < NumShards
    /\ heap' = [heap EXCEPT ![rmap] = IterLeaves(@, ridx)]
    /\ ridx' = ridx + 1
    /\ UNCHANGED <<writer, handles, wvars, rpc, rmap, acc, overlap>>

\* the caller drops the iterator, run to its end or not, and with it the guard
IterDrop ==
    /\ rpc = "iter"
    /\ rpc' = "idle"
    /\ ridx' = 0
    /\ UNCHANGED <<heap, writer, handles, wvars, rmap, acc, overlap>>

\* ---------------------------------------------------------------- a second Writer
\* A second reflector driving the same map, against the note of lines 11-12.
\* Its Applied and Deleted arms are the code of lines 34-39 on the shared map.
\* It is followed for one event, while the first Writer goes on as before.
Applied2(obj) ==
    /\ w2event = NoEvent
    /\ ~ReadLocked(writer.store, DetermineShard(ObjectRef_from_obj(obj)))
    /\ heap' = [heap EXCEPT ![writer.store] = InsertObj(@, obj)]
    /\ w2event' = [type |-> "Applied", obj |-> obj]
    /\ overlap' = Mutated
    /\ UNCHANGED <<writer, handles, wpc, event, new_objs, pending, wshard, wstart, had, twice,
                   amap, rpc, rmap, ridx, acc>>

Deleted2(obj) ==
    /\ w2event = NoEvent
    /\ ~ReadLocked(writer.store, DetermineShard(ObjectRef_from_obj(obj)))
    /\ heap' = [heap EXCEPT ![writer.store] = RemoveObj(@, obj)]
    /\ w2event' = [type |-> "Deleted", obj |-> obj]
    /\ overlap' = Mutated
    /\ UNCHANGED <<writer, handles, wpc, event, new_objs, pending, wshard, wstart, had, twice,
                   amap, rpc, rmap, ridx, acc>>

\* ---------------------------------------------------------------- system
Next ==
    \/ AsReader
    \/ \E p \in Cells : StoreClone(p)
    \/ \E obj \in Objects : Applied(obj)
    \/ \E obj \in Objects : Deleted(obj)
    \/ \E list \in Lists : RestartedBegin(list)
    \/ RestartedRetain
    \/ RestartedInsert
    \/ RestartedReturn
    \/ \E p \in Cells, key \in Keys : Get(p, key)
    \/ \E p \in Cells : StateBegin(p)
    \/ StateNext
    \/ StateEnd
    \/ \E p \in Cells : IterBegin(p)
    \/ IterNext
    \/ IterDrop

Spec == Init /\ [][Next]_vars

\* the steps of apply_watcher_event
WriterStep ==
    \/ \E obj \in Objects : Applied(obj)
    \/ \E obj \in Objects : Deleted(obj)
    \/ \E list \in Lists : RestartedBegin(list)
    \/ RestartedRetain
    \/ RestartedInsert
    \/ RestartedReturn

\* What the threads themselves guarantee. A call of apply_watcher_event or of
\* state(), once entered, runs on: a step that needs no lock is taken (WF), and
\* a step of the Writer that waits for a shard lock is taken if the lock comes
\* free again and again (SF). get() is a single step. Nothing obliges a caller
\* to start a call, nor to advance or drop an iterator that iter() gave it.
Fairness ==
    /\ SF_vars(RestartedRetain)
    /\ SF_vars(RestartedInsert)
    /\ WF_vars(RestartedReturn)
    /\ WF_vars(StateNext)
    /\ WF_vars(StateEnd)

\* one list for each map that collecting a list can give: lists that collect
\* to the same map begin the same call
ListReps == {CHOOSE l \in Lists : FromIter(l) = m : m \in {FromIter(x) : x \in Lists}}

\* the steps of Next, a Restarted call begun with one list for each map
NextLive ==
    \/ AsReader
    \/ \E p \in Cells : StoreClone(p)
    \/ \E obj \in Objects : Applied(obj)
    \/ \E obj \in Objects : Deleted(obj)
    \/ \E list \in ListReps : RestartedBegin(list)
    \/ RestartedRetain
    \/ RestartedInsert
    \/ RestartedReturn
    \/ \E p \in Cells, key \in Keys : Get(p, key)
    \/ \E p \in Cells : StateBegin(p)
    \/ StateNext
    \/ StateEnd
    \/ \E p \in Cells : IterBegin(p)
    \/ IterNext
    \/ IterDrop

FairSpec == Init /\ [][NextLive]_vars /\ Fairness

\* two Writers on one map, and handles to read it through
Next2W ==
    \/ AsReader
    \/ WriterStep
    \/ \E obj \in Objects : Applied2(obj)
    \/ \E obj \in Objects : Deleted2(obj)

Spec2W == Init /\ [][Next2W]_vars

\* ---------------------------------------------------------------- claims
\* a Restarted call has begun and has not returned
InRestarted == wpc \in {"retain", "insert"}

\* the lists of a Restarted event, grouped by the HashMap lines 41-44 collect
\* from them: pairs of a map and the lists collected to it
ListsByMap ==
    {<<m, {l : l \in {x \in Lists : FromIter(x) = m}}>> : m \in {FromIter(l) : l \in Lists}}

\* the lists a Restarted call whose collected map is m can have been given: the
\* list of the call in progress, or just returned, is one of ListsOf(new_objs)
ListsOf(m) == (CHOOSE g \in ListsByMap : g[1] = m)[2]

\* the positions of list that hold an object of identity k
Positions(list, k) == {i \in 1..Len(list) : ObjectRef_from_obj(list[i]) = k}

Last(S) == CHOOSE i \in S : \A j \in S : j <= i

\* C1: all through a Restarted(list) call, from its first step to its return, a
\* key that was in the store when the call began and is the identity of an
\* object of list is present: get on the Writer's store and through every
\* handle returns a value for it.
C1_ValidNeverAbsent ==
    InRestarted =>
        \A list \in ListsOf(new_objs) : \A k \in Keys :
            (DmGet(wstart, k) # None /\ Positions(list, k) # {}) =>
                /\ DmGet(TheStore, k) # None
                /\ \A p \in handles : StoreGet(p, k) # None

\* C1 witness: the purge of a Restarted call is over, it removed a key, no
\* insert has happened yet, and a key of the list that was stored with another
\* payload is still there for a handle to read.
C1_Witness ==
    /\ wpc = "insert"
    /\ pending = new_objs
    /\ \E k \in Keys : DmGet(wstart, k) # None /\ DmGet(TheStore, k) = None
    /\ \E e \in new_objs : \E p \in handles :
        /\ DmGet(wstart, e.key) # None
        /\ DmGet(wstart, e.key) # Some(e.value)
        /\ StoreGet(p, e.key) = DmGet(wstart, e.key)

\* what Restarted(list) must leave in the map of cell p: nothing under a key no
\* object of list has, and under the key of an object of list the last object
\* of list with that key
PostRestarted(list, p) ==
    \A k \in Keys :
        IF Positions(list, k) = {}
        THEN StoreGet(p, k) = None
        ELSE StoreGet(p, k) = Some(list[Last(Positions(list, k))])

\* C2: once Restarted(list) has returned, get returns none for every key that
\* no object of list has and, for the key of an object of list, the last object
\* of list with that key; also when list repeats a key with different payloads.
C2_RestartedResult ==
    (wpc = "idle" /\ event.type = "Restarted") =>
        \A list \in ListsOf(new_objs) :
            /\ PostRestarted(list, writer.store)
            /\ \A p \in handles : PostRestarted(list, p)

\* C2 witness: a Restarted call has returned whose list gave one key twice with
\* different payloads and left another key out, and a handle reads the later
\* payload.
C2_Witness ==
    /\ wpc = "idle"
    /\ event.type = "Restarted"
    /\ \E list \in ListsOf(new_objs) : \E i, j \in 1..Len(list) : \E p \in handles :
        /\ i < j
        /\ list[i].name = list[j].name
        /\ list[i].data # list[j].data
        /\ StoreGet(p, list[j].name) = Some(list[j])
        /\ \E k \in Keys : Positions(list, k) = {} /\ StoreGet(p, k) = None

\* C3: once Applied(o) has returned, get(identity(o)) returns exactly o, on the
\* Writer's store and through every handle, whatever was stored before.
C3_AppliedResult ==
    (wpc = "idle" /\ event.type = "Applied") =>
        /\ DmGet(TheStore, ObjectRef_from_obj(event.obj)) = Some(event.obj)
        /\ \A p \in handles :
            StoreGet(p, ObjectRef_from_obj(event.obj)) = Some(event.obj)

\* C3 witness: Applied(o) has returned on a store that held another payload
\* under identity(o), and a handle reads o.
C3_Witness ==
    /\ wpc = "idle"
    /\ event.type = "Applied"
    /\ had # None
    /\ had # Some(event.obj)
    /\ \E p \in handles :
        StoreGet(p, ObjectRef_from_obj(event.obj)) = Some(event.obj)

\* C4: once Deleted(o) has returned, get(identity(o)) returns none, whether
\* identity(o) was stored before the call or not.
C4_DeletedResult ==
    (wpc = "idle" /\ event.type = "Deleted") =>
        /\ DmGet(TheStore, ObjectRef_from_obj(event.obj)) = None
        /\ \A p \in handles : StoreGet(p, ObjectRef_from_obj(event.obj)) = None

\* C4 witness: Deleted(o) has returned on a store that held identity(o) with a
\* payload other than o's, and a handle reads none.
C4_Witness ==
    /\ wpc = "idle"
    /\ event.type = "Deleted"
    /\ had # None
    /\ had # Some(event.obj)
    /\ \E p \in handles : StoreGet(p, ObjectRef_from_obj(event.obj)) = None

\* state() has visited every shard: acc is the Vec the call returns, and
\* StateEnd, the return, is enabled and leaves the store as it is
Listed == rpc = "scan" /\ ridx = NumShards

\* the number of distinct keys in the map the reader's handle points to
KeyCount == Cardinality(DmKeys(heap[rmap]))

\* C5 as stated: at the return of every state() call, also one that overlaps
\* Writer steps, the Vec is as long as the number of keys then in the store.
C5_LengthAtCompletion == Listed => Len(acc) = KeyCount

\* C5 amended: at the return of a state() call during which no Writer step took
\* effect, the Vec is as long as the number of distinct keys in the store.
C5_LengthWhenQuiet == (Listed /\ ~overlap) => Len(acc) = KeyCount

\* C5 witness: a state() call that no Writer step overlapped returns a Vec
\* with an object for every key there is.
C5_Witness ==
    /\ Listed
    /\ ~overlap
    /\ Len(acc) = NumKeys

\* C6: the Vec of a state() call, while it is built and when it is returned,
\* never holds two objects of the same identity, Writer steps in between or not.
C6_NoDuplicateKey ==
    rpc = "scan" =>
        \A i, j \in 1..Len(acc) :
            ObjectRef_from_obj(acc[i]) = ObjectRef_from_obj(acc[j]) => i = j

\* C6 witness: a state() call overlapped by Writer steps returns two objects,
\* one of which the store has since replaced.
C6_Witness ==
    /\ Listed
    /\ overlap
    /\ Len(acc) >= 2
    /\ \E i \in 1..Len(acc) :
        /\ DmGet(heap[rmap], ObjectRef_from_obj(acc[i])) # None
        /\ DmGet(heap[rmap], ObjectRef_from_obj(acc[i])) # Some(acc[i])

\* C7: every object state() returns entered the Vec at a step of that call at
\* which the store held exactly that object under the object's key, and the Vec
\* keeps what it already holds; so each returned value is one the store held
\* for its key at an instant between the start and the end of the call.
C7_ValuesWereHeld ==
    [][(rpc = "scan" /\ rpc' = "scan" /\ acc' # acc) =>
        /\ Len(acc') > Len(acc)
        /\ SubSeq(acc', 1, Len(acc)) = acc
        /\ \A i \in (Len(acc) + 1)..Len(acc') :
            /\ DmGet(heap[rmap], ObjectRef_from_obj(acc'[i])) = Some(acc'[i])
            /\ DmGet(heap'[rmap], ObjectRef_from_obj(acc'[i])) = Some(acc'[i])]_vars

\* C7 witness: a state() call overlapped by Writer steps returns an object
\* whose key the store no longer holds.
C7_Witness ==
    /\ Listed
    /\ overlap
    /\ \E i \in 1..Len(acc) : DmGet(heap[rmap], ObjectRef_from_obj(acc[i])) = None

\* C8: in every state, those inside a Restarted call included, no map holds two
\* entries under one key, and every entry sits in the shard of its key, where
\* get, state and iter look for it.
C8_OneValuePerKey ==
    \A c \in Cells :
        /\ \A e1, e2 \in DmEntries(heap[c]) : e1.key = e2.key => e1 = e2
        /\ \A s \in Shards : \A e \in heap[c][s] : DetermineShard(e.key) = s

\* C8 witness: inside the insert loop of a Restarted call, while a state() call
\* is under way, one key already has its new payload in place of the old one
\* and another insert is still to come.
C8_Witness ==
    /\ wpc = "insert"
    /\ pending # {}
    /\ rpc = "scan"
    /\ \E e \in new_objs \ pending :
        /\ DmGet(wstart, e.key) # None
        /\ DmGet(wstart, e.key) # Some(e.value)
        /\ DmGet(TheStore, e.key) = Some(e.value)

\* C9: whenever no apply_watcher_event call is in progress, every handle,
\* minted by as_reader or by clone, before or after the mutations so far,
\* gives for every key the same get result as the Writer's store, hence as
\* every other handle, and the latest completed Applied or Deleted shows in it.
C9_HandlesShareStore ==
    wpc = "idle" =>
        \A p \in handles :
            /\ \A k \in Keys : StoreGet(p, k) = DmGet(TheStore, k)
            /\ event.type = "Applied" =>
                StoreGet(p, ObjectRef_from_obj(event.obj)) = Some(event.obj)
            /\ event.type = "Deleted" =>
                StoreGet(p, ObjectRef_from_obj(event.obj)) = None

\* C9 witness: handles exist, the Writer has completed an Applied that changed
\* the store, and a handle reads the new object.
C9_Witness ==
    /\ wpc = "idle"
    /\ event.type = "Applied"
    /\ had # Some(event.obj)
    /\ \E p \in handles :
        StoreGet(p, ObjectRef_from_obj(event.obj)) = Some(event.obj)

\* C10: an Applied(o) call that directly follows a completed Applied(o) call
\* leaves every key and every value of the store as they are.
C10_AppliedIdempotent ==
    [][\A obj \in Objects :
        (wpc = "idle" /\ event = [type |-> "Applied", obj |-> obj] /\ Applied(obj))
            => heap' = heap]_vars

\* C10 witness: the second of two Applied(o) calls in a row has returned, on a
\* store that holds every key.
C10_Witness ==
    /\ wpc = "idle"
    /\ event.type = "Applied"
    /\ twice
    /\ had = Some(event.obj)
    /\ Cardinality(DmKeys(TheStore)) = NumKeys

\* the steps of the read-only side: as_reader, Store::clone, get, state, iter
ReaderStep ==
    \/ AsReader
    \/ \E p \in Cells : StoreClone(p)
    \/ \E p \in Cells, key \in Keys : Get(p, key)
    \/ \E p \in Cells : StateBegin(p)
    \/ StateNext
    \/ StateEnd
    \/ \E p \in Cells : IterBegin(p)
    \/ IterNext
    \/ IterDrop

\* C11: no step of as_reader, Store::clone, get, state or iter (made, consumed
\* or dropped) changes the key set or a value of any map: every step that
\* changes a map is a step of apply_watcher_event and of no reader operation.
C11_ReadersNeverMutate ==
    [][ heap' # heap => (WriterStep /\ ~ReaderStep) ]_vars

\* an iterator has been run to its end over a map that holds an entry, with a
\* handle from as_reader
C11_Witness ==
    /\ rpc = "iter"
    /\ ridx = NumShards
    /\ rmap \in handles
    /\ DmKeys(heap[rmap]) # {}

\* every call in progress completes: the Writer is again and again outside
\* apply_watcher_event and the reader again and again outside state()
\* (Applied, Deleted and get are one step each)
CallsComplete ==
    /\ []<>(wpc = "idle")
    /\ []<>(rpc # "scan")

C13_ClobberedByOtherWriter ==
    [][ \A k \in Keys :
          ( /\ w2event.type = "Applied"
            /\ w2event' = w2event
            /\ ObjectRef_from_obj(w2event.obj) = k
            /\ DmGet(TheStore, k) # None
            /\ DmGet(TheStore', k) = None )
          => \/ RestartedRetain /\ ~HmContainsKey(new_objs, k)
             \/ \E obj \in Objects : ObjectRef_from_obj(obj) = k /\ Deleted(obj) ]_vars

\* the interleaving of the claim: the second Writer's latest event is Applied(o),
\* the object stood in the map when the first Writer's Restarted began, the
\* purge of that call has removed it, and get through a handle returns none
C13_Witness ==
    /\ InRestarted
    /\ w2event.type = "Applied"
    /\ DmGet(wstart, ObjectRef_from_obj(w2event.obj)) = Some(w2event.obj)
    /\ ~HmContainsKey(new_objs, ObjectRef_from_obj(w2event.obj))
    /\ writer.store \in handles
    /\ StoreGet(writer.store, ObjectRef_from_obj(w2event.obj)) = None

\* C14: in a Restarted call the purge comes wholly before the inserts: a purge
\* step puts nothing in and removes no key of the desired set, an insert step
\* removes nothing, when the inserts begin no key outside the desired set is
\* left, and the call never goes back from inserting to purging.
C14_PurgeBeforeInsert ==
    [][ /\ wpc = "retain" =>
              \A k \in Keys :
                  /\ DmGet(TheStore', k) \in {DmGet(TheStore, k), None}
                  /\ HmContainsKey(new_objs, k) => DmGet(TheStore', k) = DmGet(TheStore, k)
        /\ wpc = "insert" =>
              /\ wpc' # "retain"
              /\ \A k \in Keys : DmGet(TheStore, k) # None => DmGet(TheStore', k) # None
        /\ wpc' = "insert" =>
              /\ wpc \in {"retain", "insert"}
              /\ \A k \in DmKeys(TheStore') : HmContainsKey(new_objs', k) ]_vars

\* a call whose purge had a key to remove and a key to keep, with an insert done
C14_Witness ==
    /\ wpc = "insert"
    /\ pending # new_objs
    /\ \E k \in DmKeys(wstart) : ~HmContainsKey(new_objs, k)
    /\ \E k \in DmKeys(wstart) : HmContainsKey(new_objs, k)

\* C15: Deleted(o) for a key the store does not hold changes nothing: the key
\* set and every value are as before, and the call returns like any other.
C15_DeletedAbsentNoOp ==
    [][ ( /\ event'.type = "Deleted"
          /\ Deleted(event'.obj)
          /\ DmGet(TheStore, ObjectRef_from_obj(event'.obj)) = None )
        => /\ heap' = heap
           /\ wpc' = "idle" ]_vars

\* Deleted(o) has returned, its key was absent, and the store holds an entry
C15_Witness ==
    /\ wpc = "idle"
    /\ event.type = "Deleted"
    /\ had = None
    /\ DmKeys(TheStore) # {}

\* C16: Applied(o) and Deleted(o) leave every key other than identity(o) as it
\* was: present or absent as before, and with the value it had.
C16_OtherKeysUntouched ==
    [][ ( /\ event'.type \in {"Applied", "Deleted"}
          /\ Applied(event'.obj) \/ Deleted(event'.obj) )
        => \A k \in Keys \ {ObjectRef_from_obj(event'.obj)} :
               DmGet(TheStore', k) = DmGet(TheStore, k) ]_vars

\* Applied(o) or Deleted(o) has returned and another key is in the store
C16_Witness ==
    /\ wpc = "idle"
    /\ event.type \in {"Applied", "Deleted"}
    /\ DmKeys(TheStore) \ {ObjectRef_from_obj(event.obj)} # {}

\* C17: while a Restarted call is in progress each key is absent, or holds the
\* value it had when the call began, or holds the value the call finally
\* leaves for it; a key that neither the store at the beginning nor the list
\* holds is absent throughout; and a key outside the desired set that is
\* absent stays absent until the call ends. (Every state inside the call has
\* a step leaving it, so the first two parts are read at the step's start.)
C17_OldNewOrAbsent ==
    [][ /\ InRestarted =>
               \A k \in Keys :
                   /\ DmGet(TheStore, k) \in {None, DmGet(wstart, k), amap[k]}
                   /\ (DmGet(wstart, k) = None /\ amap[k] = None)
                          => DmGet(TheStore, k) = None
        /\ (InRestarted /\ InRestarted') =>
               \A k \in Keys :
                   (amap[k] = None /\ DmGet(TheStore, k) = None)
                       => DmGet(TheStore', k) = None ]_vars

\* a mix: the purge is over, a key the list does not name has been removed,
\* and another key still holds its old value where the list gives a new one
C17_Witness ==
    /\ wpc = "insert"
    /\ \E k \in Keys :
           /\ DmGet(TheStore, k) # None
           /\ DmGet(TheStore, k) = DmGet(wstart, k)
           /\ amap[k] \notin {None, DmGet(wstart, k)}
    /\ \E k \in Keys :
           /\ DmGet(wstart, k) # None
           /\ amap[k] = None
           /\ DmGet(TheStore, k) = None

\* C18: whenever no apply_watcher_event call is in progress the store is the
\* abstract map: the events applied so far folded in order, Applied setting
\* one key, Deleted removing one key, Restarted replacing the whole map by the
\* last-wins map of its list.
C18_RefinesAbstractMap ==
    wpc = "idle" => \A k \in Keys : DmGet(TheStore, k) = amap[k]

\* a Restarted call has returned leaving one key set and another key absent
C18_Witness ==
    /\ wpc = "idle"
    /\ event.type = "Restarted"
    /\ \E k \in Keys : amap[k] # None
    /\ \E k \in Keys : amap[k] = None

====
